---------------------------- MODULE Spec2Model ----------------------------
(***************************************************************************)
(* Model of the temporal distribution engine of the campaign platform      *)
(* (src/campaign_platform/scheduler/action_scheduler.py, ActionScheduler). *)
(*                                                                         *)
(* Time.  A datetime is an integer number of seconds counted from 00:00 of *)
(* day 0, and day 0 is a Monday; a date is an integer day number, so       *)
(* weekday(d) = d % 7 with Monday = 0 ... Sunday = 6, as datetime.weekday. *)
(* The strategies below only use whole minutes, except the burst strategy, *)
(* whose fractional interval is truncated to whole seconds here.           *)
(*                                                                         *)
(* Randomness.  random.randint(a, b) is a nondeterministic choice; the     *)
(* model draws the two extremes a and b.                                   *)
(*                                                                         *)
(* Control.  One call is modelled at a time: pc is the position of the     *)
(* call ("returned" after a return, the exception's name after a raise),   *)
(* args its arguments, locals its local variables, scheduled the list it   *)
(* is building and ret the value it returned.                              *)
(***************************************************************************)
EXTENDS Integers, Sequences, FiniteSets, TLC

VARIABLES pc, args, locals, scheduled, ret, db

vars == <<pc, args, locals, scheduled, ret, db>>

---------------------------------------------------------------------------
(* Bounds of the model *)

\* largest day number a date can hold; stands for date.max (9999-12-31),
\* past which the datetime arithmetic raises OverflowError
MaxDay == 63

\* window.start / dt / campaign_start lie on days 0..MaxStartDay
MaxStartDay == 6

\* window.end is window.start plus 0..MaxWindowDays days
MaxWindowDays == 2

\* longest action_ids list given to the stagger strategy
MaxActions == 4

\* emails_per_day is drawn from 1..MaxPerDay
MaxPerDay == 2

---------------------------------------------------------------------------
(* datetime arithmetic *)

\* datetime.timedelta(days=..., hours=..., minutes=...)
timedelta(days, hours, minutes) == days * 86400 + hours * 3600 + minutes * 60

\* datetime.date()
Date(dt) == dt \div 86400

\* datetime.hour
Hour(dt) == (dt % 86400) \div 3600

\* datetime.weekday() / date.weekday(): Monday = 0 ... Sunday = 6
weekday(d) == d % 7

\* datetime.combine(d, time(hour, minute))
combine(d, hour, minute) == timedelta(d, hour, minute)

\* random.randint(a, b), by its two extreme draws
randint(a, b) == {a, b}

Max(a, b) == IF a >= b THEN a ELSE b

---------------------------------------------------------------------------
(* ScheduleWindow *)

\* ScheduleWindow.blocked_hours default: no scheduling between 10pm and 7am
DefaultBlockedHours == {0, 1, 2, 3, 4, 5, 6, 22, 23}

ScheduleWindow(start, end, blocked_hours) ==
    [start |-> start, end |-> end, blocked_hours |-> blocked_hours]

\* the blocked_hours lists supplied by callers in this model
BlockedHoursChoices == {DefaultBlockedHours, {10}, {9, 23}}

\* ScheduledAction (notes, a free text, is left out)
ScheduledAction(action_id, action_type, scheduled_start, scheduled_end, priority, batch_id) ==
    [action_id |-> action_id, action_type |-> action_type,
     scheduled_start |-> scheduled_start, scheduled_end |-> scheduled_end,
     priority |-> priority, batch_id |-> batch_id]

\* the action id lists supplied by callers: n distinct ids, in order
ActionIds(n) == [k \in 1..n |-> 100 + k]

---------------------------------------------------------------------------
(* BusinessClock: ActionScheduler._next_business_hour *)

\* the value standing for a raised OverflowError ("date value out of range")
OverflowError == -1

\* one round of the while loop: the next 09:00, on Monday after a weekend day
\* and on the next calendar day otherwise
ClockAdvanceDay(result) ==
    IF weekday(Date(result)) >= 5
    THEN Date(result) + (7 - weekday(Date(result)))
    ELSE Date(result) + 1

\* the loop's condition without its weekend test
ClockInvalid_HoursOnly(result, blocked_hours) == Hour(result) \in blocked_hours

\* the loop's condition
ClockInvalid(result, blocked_hours) ==
    \/ Hour(result) \in blocked_hours
    \/ weekday(Date(result)) >= 5

RECURSIVE next_business_hour(_, _)
next_business_hour(dt, blocked_hours) ==
    IF ClockInvalid(dt, blocked_hours)
    THEN IF ClockAdvanceDay(dt) > MaxDay
         THEN OverflowError
         ELSE next_business_hour(combine(ClockAdvanceDay(dt), 9, 0), blocked_hours)
    ELSE dt

\* a call of _next_business_hour(dt, window)
ClockCall ==
    /\ pc = "idle"
    /\ \E d \in 0..MaxStartDay, h \in 0..23, b \in BlockedHoursChoices :
         LET dt == combine(d, h, 0)
             r == next_business_hour(dt, b)
         IN /\ args' = [fn |-> "next_business_hour", dt |-> dt,
                        window |-> ScheduleWindow(dt, dt, b)]
            /\ ret' = IF r = OverflowError THEN ret ELSE r
            /\ pc' = IF r = OverflowError THEN "OverflowError" ELSE "returned"
    /\ UNCHANGED <<locals, scheduled>>
    /\ UNCHANGED db

---------------------------------------------------------------------------
(* StaggerStrategy: ActionScheduler.schedule_email_campaign *)

\* SkipWeekend without its loop: the cursor is used as it is
SkipWeekend_NoLoop(current_time) == current_time

\* lines 94-98: while current_time.weekday() >= 5, move to 09:00 the next day
RECURSIVE SkipWeekend(_)
SkipWeekend(current_time) ==
    IF weekday(Date(current_time)) >= 5
    THEN SkipWeekend(combine(Date(current_time) + 1, 9, 0))
    ELSE current_time

\* Python's a // b (floor division) for b # 0
FloorDiv(a, b) == IF b > 0 THEN a \div b ELSE (0 - a) \div (0 - b)

\* line 105
EmailPriority(i, emails_per_day) == Max(1, 5 - FloorDiv(i, emails_per_day))

\* line 89: the guard that ends the loop early
EmailWindowExhausted(current_date, window) == current_date > Date(window.end)

\* the stagger_minutes and emails_per_day values supplied by callers in this
\* model: the valid ones and the degenerate ones (negative interval, cap <= 0)
StaggerMinutesChoices == {-15, 15, 50, 900}

EmailsPerDayChoices == (1..MaxPerDay) \cup {0, -1}

\* lines 84-86: the loop's variables before the first iteration
EmailInitLocals(window, first) ==
    [i |-> 0, current_date |-> Date(window.start), daily_count |-> 0,
     current_time |-> first]

\* lines 117-135: the loop's variables after a placement at `at`, with the
\* drawn jitter j and the drawn minute m of the next day's 09:mm
EmailAdvance(loc, at, emails_per_day, stagger_minutes, j, m) ==
    IF loc.daily_count + 1 >= emails_per_day
    THEN [i |-> loc.i + 1, current_date |-> loc.current_date + 1,
          daily_count |-> 0,
          current_time |-> combine(loc.current_date + 1, 9, m)]
    ELSE IF Hour(at + timedelta(0, 0, stagger_minutes + j)) >= 18
         THEN [i |-> loc.i + 1, current_date |-> loc.current_date + 1,
               daily_count |-> loc.daily_count + 1,
               current_time |-> combine(loc.current_date + 1, 9, m)]
         ELSE [i |-> loc.i + 1, current_date |-> loc.current_date,
               daily_count |-> loc.daily_count + 1,
               current_time |-> at + timedelta(0, 0, stagger_minutes + j)]

\* lines 83-86: the call, up to the loop
EmailCall ==
    /\ pc = "idle"
    /\ \E d \in 0..MaxStartDay, h \in {9, 17, 23}, wd \in 0..MaxWindowDays,
          b \in BlockedHoursChoices, n \in 0..MaxActions,
          epd \in EmailsPerDayChoices, sm \in StaggerMinutesChoices :
         LET start == combine(d, h, 0)
             window == ScheduleWindow(start, start + timedelta(wd, 0, 0), b)
             first == next_business_hour(start, b)
         IN /\ args' = [fn |-> "schedule_email_campaign",
                        action_ids |-> ActionIds(n), window |-> window,
                        emails_per_day |-> epd, stagger_minutes |-> sm]
            /\ scheduled' = <<>>
            /\ IF first = OverflowError
               THEN /\ pc' = "OverflowError"
                    /\ UNCHANGED <<locals, ret>>
               ELSE /\ pc' = "email_loop"
                    /\ locals' = EmailInitLocals(window, first)
                    /\ UNCHANGED ret
    /\ UNCHANGED db

\* lines 88-135: one iteration of the loop over action_ids; i // emails_per_day
\* raises ZeroDivisionError before the placement is appended
EmailIter ==
    /\ pc = "email_loop"
    /\ locals.i < Len(args.action_ids)
    /\ ~EmailWindowExhausted(locals.current_date, args.window)
    /\ IF args.emails_per_day = 0
       THEN /\ pc' = "ZeroDivisionError"
            /\ UNCHANGED <<locals, scheduled>>
       ELSE LET at == SkipWeekend(locals.current_time)
                sa == ScheduledAction(args.action_ids[locals.i + 1], "email", at,
                                      at + timedelta(0, 1, 0),
                                      EmailPriority(locals.i, args.emails_per_day),
                                      <<"email-batch", locals.current_date>>)
            IN /\ scheduled' = Append(scheduled, sa)
               /\ \E j \in randint(0, 10), m \in randint(0, 30) :
                    locals' = EmailAdvance(locals, at, args.emails_per_day,
                                           args.stagger_minutes, j, m)
               /\ UNCHANGED pc
    /\ UNCHANGED <<args, ret>>
    /\ UNCHANGED db

\* lines 89-91 and 137: the loop ends (break, or action_ids exhausted)
EmailReturn ==
    /\ pc = "email_loop"
    /\ \/ locals.i >= Len(args.action_ids)
       \/ EmailWindowExhausted(locals.current_date, args.window)
    /\ pc' = "returned"
    /\ ret' = scheduled
    /\ UNCHANGED <<args, locals, scheduled>>
    /\ UNCHANGED db

---------------------------------------------------------------------------
(* BurstStrategy: ActionScheduler.schedule_social_burst *)

\* lines 165-171: platform_windows.get(platform, 15), in minutes
platform_windows(platform) ==
    CASE platform = "twitter" -> 10
      [] platform = "instagram" -> 15
      [] platform = "tiktok" -> 20
      [] platform = "linkedin" -> 30
      [] OTHER -> 15

\* the platforms and pre_burst_minutes values supplied by callers in this model
Platforms == {"twitter", "instagram", "tiktok", "linkedin", "facebook"}

PreBurstChoices == {0, 5, 20, 31}

\* BurstPostTime counted from burst_time itself, without the pre-burst offset
BurstPostTime_NoPreBurst(burst_time, pre_burst_minutes, window_minutes, n, i) ==
    burst_time + (window_minutes * 60 * i) \div Max(n, 1)

\* lines 174-178: post_time of the i-th action (from 0) out of n, in seconds;
\* interval = window_minutes / max(n, 1) minutes
BurstPostTime(burst_time, pre_burst_minutes, window_minutes, n, i) ==
    (burst_time - timedelta(0, 0, pre_burst_minutes))
        + (window_minutes * 60 * i) \div Max(n, 1)

\* lines 162-193: the whole call
BurstCall ==
    /\ pc = "idle"
    /\ \E d \in 0..MaxStartDay, n \in 0..MaxActions,
          pre \in PreBurstChoices, platform \in Platforms :
         LET burst_time == combine(d, 19, 0)
             ids == ActionIds(n)
             out == [k \in 1..n |->
                       LET post_time == BurstPostTime(burst_time, pre,
                                            platform_windows(platform), n, k - 1)
                       IN ScheduledAction(ids[k], "social_post", post_time,
                                          post_time + timedelta(0, 0, 5), 1,
                                          <<"social-burst", burst_time>>)]
         IN /\ args' = [fn |-> "schedule_social_burst", action_ids |-> ids,
                        burst_time |-> burst_time, pre_burst_minutes |-> pre,
                        platform |-> platform]
            /\ scheduled' = out
            /\ ret' = out
            /\ pc' = "returned"
    /\ UNCHANGED locals
    /\ UNCHANGED db

---------------------------------------------------------------------------
(* RampStrategy: ActionScheduler.schedule_comment_period *)

\* longest action_ids list given to the ramp strategy
MaxComments == 6

\* ramp_up_days is drawn from 1..MaxRampDays, the default and the degenerate
\* values 0 and -1
MaxRampDays == 3

\* schedule_comment_period's default ramp_up_days
DefaultRampUpDays == 14

\* lines 365-366: max(1, int(total * 0.2))
TierCount(total) == Max(1, total \div 5)

\* line 367
RampCount(total) == total - TierCount(total) - TierCount(total)

\* lines 377 and 397: int((14 / max(count, 1)) * i)
LinearDayOffset(count, i) == (14 * i) \div Max(count, 1)

\* Python's int(num / den) for den > 0: truncation toward zero
TruncDiv(num, den) ==
    IF num >= 0 THEN num \div den ELSE 0 - ((0 - num) \div den)

\* RampDayOffset spread over ramp_up_days instead of ramp_up_days - 1
RampDayOffset_FullWindow(ramp_count, ramp_up_days, i) ==
    TruncDiv(i * i * ramp_up_days,
             Max(ramp_count - 1, 1) * Max(ramp_count - 1, 1))

\* lines 413-414: int(((i / max(ramp_count - 1, 1)) ** 2) * (ramp_up_days - 1))
RampDayOffset(ramp_count, ramp_up_days, i) ==
    TruncDiv(i * i * (ramp_up_days - 1),
             Max(ramp_count - 1, 1) * Max(ramp_count - 1, 1))

\* the ramp_up_days values supplied by callers in this model
RampUpDaysChoices == (1..MaxRampDays) \cup {DefaultRampUpDays, 0, -1}

\* the times of day of the comment deadlines supplied by callers in this model
DeadlineTimes == {<<0, 0>>, <<12, 0>>, <<23, 59>>}

\* line 370
RampCampaignStart(comment_deadline) == comment_deadline - timedelta(42, 0, 0)

\* line 371
RampStart(comment_deadline, ramp_up_days) ==
    comment_deadline - timedelta(ramp_up_days, 0, 0)

\* line 378
EarlyCommentTime(comment_deadline, early_count, i) ==
    RampCampaignStart(comment_deadline)
        + timedelta(LinearDayOffset(early_count, i), 10, 0)

\* lines 395-398
MiddleCommentTime(comment_deadline, middle_count, i) ==
    (RampCampaignStart(comment_deadline) + timedelta(14, 0, 0))
        + timedelta(LinearDayOffset(middle_count, i), 14, 0)

\* line 415, with the drawn hour
RampCommentTime(comment_deadline, ramp_up_days, ramp_count, i, hour) ==
    RampStart(comment_deadline, ramp_up_days)
        + timedelta(RampDayOffset(ramp_count, ramp_up_days, i), hour, 0)

\* lines 359-373: the call, up to the first loop
RampCall ==
    /\ pc = "idle"
    /\ \E d \in 0..MaxStartDay, hm \in DeadlineTimes, n \in 0..MaxComments,
          r \in RampUpDaysChoices :
         /\ args' = [fn |-> "schedule_comment_period", action_ids |-> ActionIds(n),
                     comment_deadline |-> combine(42 + d, hm[1], hm[2]),
                     ramp_up_days |-> r]
         /\ scheduled' = <<>>
         /\ IF n = 0
            THEN /\ pc' = "returned"
                 /\ ret' = <<>>
                 /\ UNCHANGED locals
            ELSE /\ pc' = "ramp_early"
                 /\ locals' = [total |-> n, early_count |-> TierCount(n),
                               middle_count |-> TierCount(n),
                               ramp_count |-> RampCount(n), idx |-> 0, i |-> 0]
                 /\ UNCHANGED ret
    /\ UNCHANGED db

\* a placement of the ramp strategy, or IndexError when action_ids[idx] does
\* not exist; nextpc is the position after the placement
RampPlace(comment_time, priority, batch_id, nextpc) ==
    IF locals.idx >= Len(args.action_ids)
    THEN /\ pc' = "IndexError"
         /\ UNCHANGED <<locals, scheduled, ret>>
    ELSE /\ scheduled' = Append(scheduled,
                ScheduledAction(args.action_ids[locals.idx + 1], "public_comment",
                                comment_time, comment_time + timedelta(0, 2, 0),
                                priority, batch_id))
         /\ pc' = nextpc
         /\ locals' = [locals EXCEPT !.idx = locals.idx + 1,
                          !.i = IF nextpc = pc THEN locals.i + 1 ELSE 0]
         /\ IF nextpc = "returned" THEN ret' = scheduled' ELSE UNCHANGED ret

\* lines 376-392: one iteration of the early loop
RampEarlyIter ==
    /\ pc = "ramp_early"
    /\ RampPlace(EarlyCommentTime(args.comment_deadline, locals.early_count, locals.i),
                 2, "comment-early",
                 IF locals.i + 1 < locals.early_count THEN "ramp_early"
                 ELSE "ramp_middle")
    /\ UNCHANGED args
    /\ UNCHANGED db

\* lines 396-408: one iteration of the middle loop
RampMiddleIter ==
    /\ pc = "ramp_middle"
    /\ RampPlace(MiddleCommentTime(args.comment_deadline, locals.middle_count, locals.i),
                 5, "comment-middle",
                 IF locals.i + 1 < locals.middle_count THEN "ramp_middle"
                 ELSE IF locals.ramp_count > 0 THEN "ramp_final"
                 ELSE "returned")
    /\ UNCHANGED args
    /\ UNCHANGED db

\* lines 411-429: one iteration of the final ramp-up loop
RampFinalIter ==
    /\ pc = "ramp_final"
    /\ \E hour \in randint(9, 16) :
         RampPlace(RampCommentTime(args.comment_deadline, args.ramp_up_days,
                                   locals.ramp_count, locals.i, hour),
                   3, "comment-rampup",
                   IF locals.i + 1 < locals.ramp_count THEN "ramp_final"
                   ELSE "returned")
    /\ UNCHANGED args
    /\ UNCHANGED db

---------------------------------------------------------------------------
(* PhaseSequencer: ActionScheduler.schedule_escalation_sequence *)

\* duration_weeks is drawn from 0..MaxWeeks
MaxWeeks == 2

\* longest action list assigned to one phase
MaxPhaseActions == 3

\* the phase numbers of this model
PhaseNumbers == {1, 2}

\* a phase descriptor (name and tactics, free texts, are left out)
Phase(phase, duration_weeks) == [phase |-> phase, duration_weeks |-> duration_weeks]

PhaseDescriptors ==
    {Phase(n, w) : n \in PhaseNumbers, w \in 0..MaxWeeks}

\* the phase lists supplied by callers: up to two phases, in any order
PhaseLists ==
    {<<>>} \cup {<<p>> : p \in PhaseDescriptors}
           \cup {<<p, q>> : p \in PhaseDescriptors, q \in PhaseDescriptors}

\* the ids assigned to phase n when it has k actions
PhaseActionIds(n, k) == [x \in 1..k |-> 100 * n + x]

\* line 290: actions_per_phase.get(phase_num, [])
PhaseActions(actions_per_phase, phase_num) ==
    IF phase_num \in DOMAIN actions_per_phase
    THEN actions_per_phase[phase_num]
    ELSE <<>>

\* PhaseEndDate counting duration_weeks as days
PhaseEndDate_Days(phase_start, duration_weeks) == phase_start + duration_weeks

\* lines 293 and 296: phase_start + timedelta(weeks=duration_weeks)
PhaseEndDate(phase_start, duration_weeks) == phase_start + 7 * duration_weeks

\* line 303: max(1, (phase_end - phase_start).days)
DaysInPhase(phase_start, phase_end) == Max(1, phase_end - phase_start)

\* line 304: max(1, len(phase_actions) // days_in_phase)
ActionsPerDay(count, days_in_phase) == Max(1, count \div days_in_phase)

\* line 311: the days the day-distribution skips
PhaseSkipsDay(current_date) == weekday(current_date) >= 5

\* lines 318-321: datetime.combine(current_date, time(9 + (j % 8), minute))
PhaseActionTime(current_date, j, minute) == combine(current_date, 9 + (j % 8), minute)

\* the single-phase calls with a long action list, as <<duration_weeks, count>>:
\* a one-week phase with more actions than days, and a zero-week phase with
\* more actions than the eight hour slots of a day
LongPhases == {<<1, 6>>, <<1, 10>>, <<0, 9>>}

\* the phase lists and action counts per phase number supplied by callers
PhaseCallInputs ==
    {<<phases, counts>> :
        phases \in PhaseLists, counts \in [PhaseNumbers -> 0..MaxPhaseActions]}
    \cup {<<<<Phase(1, l[1])>>, [n \in PhaseNumbers |-> IF n = 1 THEN l[2] ELSE 0]>> :
             l \in LongPhases}

\* lines 284-285: the call, up to the loop over phases
PhaseCall ==
    /\ pc = "idle"
    /\ \E in \in PhaseCallInputs, campaign_start \in 0..MaxStartDay :
         /\ args' = [fn |-> "schedule_escalation_sequence", phases |-> in[1],
                     campaign_start |-> campaign_start,
                     actions_per_phase |->
                         [n \in PhaseNumbers |-> PhaseActionIds(n, in[2][n])]]
         /\ locals' = [p |-> 1, phase_start |-> campaign_start]
    /\ scheduled' = <<>>
    /\ pc' = "phase_loop"
    /\ UNCHANGED ret
    /\ UNCHANGED db

\* lines 287-307: the head of one iteration of the loop over phases
PhaseBegin ==
    /\ pc = "phase_loop"
    /\ locals.p <= Len(args.phases)
    /\ LET phase == args.phases[locals.p]
           phase_actions == PhaseActions(args.actions_per_phase, phase.phase)
           phase_end == PhaseEndDate(locals.phase_start, phase.duration_weeks)
           days_in_phase == DaysInPhase(locals.phase_start, phase_end)
       IN IF phase_actions = <<>>
          THEN /\ locals' = [p |-> locals.p + 1, phase_start |-> phase_end]
               /\ UNCHANGED pc
          ELSE /\ locals' =
                    [p |-> locals.p, phase_start |-> locals.phase_start,
                     phase_num |-> phase.phase, phase_actions |-> phase_actions,
                     phase_end |-> phase_end,
                     window |-> ScheduleWindow(combine(locals.phase_start, 9, 0),
                                               combine(phase_end, 17, 0),
                                               DefaultBlockedHours),
                     days_in_phase |-> days_in_phase,
                     actions_per_day |->
                         ActionsPerDay(Len(phase_actions), days_in_phase),
                     day_offset |-> 0, action_idx |-> 0]
               /\ pc' = "phase_days"
    /\ UNCHANGED <<args, scheduled, ret>>
    /\ UNCHANGED db

\* lines 309-333: one iteration of the loop over the phase's days
PhaseDayIter ==
    /\ pc = "phase_days"
    /\ locals.day_offset < locals.days_in_phase
    /\ LET current_date == locals.phase_start + locals.day_offset
           rest == Len(locals.phase_actions) - locals.action_idx
           k == IF rest < locals.actions_per_day THEN rest
                ELSE locals.actions_per_day
       IN IF PhaseSkipsDay(current_date)
          THEN /\ locals' = [locals EXCEPT !.day_offset = locals.day_offset + 1]
               /\ UNCHANGED <<pc, scheduled>>
          ELSE /\ \E minute \in [1..k -> randint(0, 59)] :
                    scheduled' = scheduled \o
                        [j \in 1..k |->
                           LET action_time ==
                                 PhaseActionTime(current_date, j - 1, minute[j])
                           IN ScheduledAction(
                                locals.phase_actions[locals.action_idx + j],
                                "mixed", action_time,
                                action_time + timedelta(0, 2, 0),
                                locals.phase_num,
                                <<"phase", locals.phase_num, current_date>>)]
               /\ IF locals.action_idx + k >= Len(locals.phase_actions)
                  THEN /\ locals' = [p |-> locals.p + 1,
                                     phase_start |-> locals.phase_end]
                       /\ pc' = "phase_loop"
                  ELSE /\ locals' = [locals EXCEPT
                                        !.day_offset = locals.day_offset + 1,
                                        !.action_idx = locals.action_idx + k]
                       /\ UNCHANGED pc
    /\ UNCHANGED <<args, ret>>
    /\ UNCHANGED db

\* lines 309 and 335: the days of the phase are used up
PhaseEnd ==
    /\ pc = "phase_days"
    /\ locals.day_offset >= locals.days_in_phase
    /\ locals' = [p |-> locals.p + 1, phase_start |-> locals.phase_end]
    /\ pc' = "phase_loop"
    /\ UNCHANGED <<args, scheduled, ret>>
    /\ UNCHANGED db

\* line 337
PhaseReturn ==
    /\ pc = "phase_loop"
    /\ locals.p > Len(args.phases)
    /\ pc' = "returned"
    /\ ret' = scheduled
    /\ UNCHANGED <<args, locals, scheduled>>
    /\ UNCHANGED db

---------------------------------------------------------------------------
(* Phone bank: ActionScheduler.schedule_phone_bank *)

\* lines 217-218: business calling hours, 9am-5pm
calling_start_hour == 9

calling_end_hour == 17

\* the loop condition of lines 226-230 without its weekday test
PhoneOutsideHours_NoWeekdayTest(current_time) ==
    \/ Hour(current_time) < calling_start_hour
    \/ Hour(current_time) >= calling_end_hour

\* lines 226-230: the condition of the loop that skips non-business hours
PhoneOutsideHours(current_time) ==
    \/ Hour(current_time) < calling_start_hour
    \/ Hour(current_time) >= calling_end_hour
    \/ weekday(Date(current_time)) >= 5

\* lines 222 and 236: current_time.replace(hour=calling_start_hour, minute=0)
PhoneReplaceHour(current_time) ==
    combine(Date(current_time), calling_start_hour, 0) + (current_time % 60)

\* lines 226-236: the loop that skips non-business hours
RECURSIVE PhoneSkip(_)
PhoneSkip(current_time) ==
    IF PhoneOutsideHours(current_time)
    THEN IF \/ Hour(current_time) >= calling_end_hour
            \/ weekday(Date(current_time)) >= 5
         THEN PhoneSkip(combine(Date(current_time) + 1, calling_start_hour, 0))
         ELSE PhoneSkip(PhoneReplaceHour(current_time))
    ELSE current_time

\* line 241: 60 // max(calls_per_hour, 1), in minutes
PhoneInterval(calls_per_hour) == 60 \div Max(calls_per_hour, 1)

\* the calls_per_hour values and the hours of window.start supplied by callers
\* in this model
CallsPerHourChoices == {0, 10, 90}

PhoneStartHours == {8, 10, 16, 20}

\* lines 215-222: the call, up to the loop
PhoneCall ==
    /\ pc = "idle"
    /\ \E d \in 0..MaxStartDay, h \in PhoneStartHours, wd \in 0..MaxWindowDays,
          n \in 0..MaxActions, cph \in CallsPerHourChoices :
         LET start == combine(d, h, 0)
         IN /\ args' = [fn |-> "schedule_phone_bank", action_ids |-> ActionIds(n),
                        window |-> ScheduleWindow(start, start + timedelta(wd, 0, 0),
                                                  DefaultBlockedHours),
                        calls_per_hour |-> cph]
            /\ locals' = [i |-> 0,
                          current_time |-> IF Hour(start) < calling_start_hour
                                           THEN PhoneReplaceHour(start)
                                           ELSE start]
    /\ scheduled' = <<>>
    /\ pc' = "phone_loop"
    /\ UNCHANGED ret
    /\ UNCHANGED db

\* lines 224-256: one iteration of the loop over action_ids
PhoneIter ==
    /\ pc = "phone_loop"
    /\ locals.i < Len(args.action_ids)
    /\ PhoneSkip(locals.current_time) <= args.window.end
    /\ LET current_time == PhoneSkip(locals.current_time)
       IN /\ scheduled' = Append(scheduled,
                 ScheduledAction(args.action_ids[locals.i + 1], "phone_call",
                                 current_time, current_time + timedelta(0, 0, 10),
                                 2, <<"calls", Date(current_time)>>))
          /\ locals' = [i |-> locals.i + 1,
                        current_time |-> current_time
                            + timedelta(0, 0, PhoneInterval(args.calls_per_hour))]
    /\ UNCHANGED <<pc, args, ret>>
    /\ UNCHANGED db

\* lines 238-239 and 258: the loop ends (break, or action_ids exhausted)
PhoneReturn ==
    /\ pc = "phone_loop"
    /\ \/ locals.i >= Len(args.action_ids)
       \/ PhoneSkip(locals.current_time) > args.window.end
    /\ pc' = "returned"
    /\ ret' = scheduled
    /\ UNCHANGED <<args, locals, scheduled>>
    /\ UNCHANGED db

---------------------------------------------------------------------------
(* Schedule summary: ActionScheduler.get_schedule_summary *)

\* A Python dict of counts: its keys in insertion order and the count of each.
EmptyDict == [keys |-> <<>>, val |-> <<>>]

DictKeys(d) == {d.keys[x] : x \in DOMAIN d.keys}

\* d.get(key, 0)
DictGet(d, key) == IF key \in DictKeys(d) THEN d.val[key] ELSE 0

\* d[key] = 1, whatever the count was
DictIncr_Overwrite(d, key) ==
    [keys |-> IF key \in DictKeys(d) THEN d.keys ELSE Append(d.keys, key),
     val |-> [x \in DictKeys(d) \cup {key} |-> IF x = key THEN 1 ELSE d.val[x]]]

\* lines 467, 468, 470: d[key] = d.get(key, 0) + 1
DictIncr(d, key) ==
    [keys |-> IF key \in DictKeys(d) THEN d.keys ELSE Append(d.keys, key),
     val |-> [x \in DictKeys(d) \cup {key} |->
                 IF x = key THEN DictGet(d, key) + 1 ELSE d.val[x]]]

\* line 482: max(d.values())
DictMaxValue(d) ==
    CHOOSE v \in {d.val[x] : x \in DictKeys(d)} : \A x \in DictKeys(d) : d.val[x] <= v

\* DictPeakKey taking the last key in insertion order with the greatest count
DictPeakKey_LastMax(d) ==
    d.keys[CHOOSE x \in DOMAIN d.keys :
               /\ d.val[d.keys[x]] = DictMaxValue(d)
               /\ \A y \in (x + 1)..Len(d.keys) : d.val[d.keys[y]] < DictMaxValue(d)]

\* line 481: max(d, key=d.get), the first key in insertion order with the
\* greatest count
DictPeakKey(d) ==
    d.keys[CHOOSE x \in DOMAIN d.keys :
               /\ d.val[d.keys[x]] = DictMaxValue(d)
               /\ \A y \in 1..(x - 1) : d.val[d.keys[y]] < DictMaxValue(d)]

\* lines 472, 475, 476: min(dates) and max(dates)
MinStart(sas) ==
    CHOOSE t \in {sas[x].scheduled_start : x \in DOMAIN sas} :
        \A x \in DOMAIN sas : t <= sas[x].scheduled_start

MaxStart(sas) ==
    CHOOSE t \in {sas[x].scheduled_start : x \in DOMAIN sas} :
        \A x \in DOMAIN sas : t >= sas[x].scheduled_start

\* the placement lists handed to the summary in this model: up to
\* MaxSummaryLen placements over two types, three starts on two dates, with
\* and without a batch id (batch_id defaults to None, line 38)
MaxSummaryLen == 3

SummaryTypes == {"email", "social_post"}

SummaryStarts == {combine(0, 9, 0), combine(0, 17, 30), combine(3, 12, 0)}

NoBatch == <<>>

SummaryPlacements ==
    {ScheduledAction(100, ty, st, st + timedelta(0, 1, 0), 3, b) :
        ty \in SummaryTypes, st \in SummaryStarts,
        b \in {NoBatch, <<"email-batch", 0>>}}

SummaryLists ==
    UNION {[1..n -> SummaryPlacements] : n \in 0..MaxSummaryLen}

\* lines 458-463: the call; an empty list returns {"total": 0} at once
SummaryCall ==
    /\ pc = "idle"
    /\ \E sas \in SummaryLists :
         /\ args' = [fn |-> "get_schedule_summary", scheduled_actions |-> sas]
         /\ IF sas = <<>>
            THEN /\ pc' = "returned"
                 /\ ret' = [total |-> 0]
                 /\ UNCHANGED locals
            ELSE /\ pc' = "summary_loop"
                 /\ locals' = [i |-> 0, by_date |-> EmptyDict,
                               by_type |-> EmptyDict, by_batch |-> EmptyDict]
                 /\ UNCHANGED ret
    /\ scheduled' = <<>>
    /\ UNCHANGED db

\* lines 465-470: one iteration of the loop over scheduled_actions
SummaryIter ==
    /\ pc = "summary_loop"
    /\ locals.i < Len(args.scheduled_actions)
    /\ LET sa == args.scheduled_actions[locals.i + 1]
       IN locals' = [i |-> locals.i + 1,
                     by_date |-> DictIncr(locals.by_date, Date(sa.scheduled_start)),
                     by_type |-> DictIncr(locals.by_type, sa.action_type),
                     by_batch |-> IF sa.batch_id # NoBatch
                                  THEN DictIncr(locals.by_batch, sa.batch_id)
                                  ELSE locals.by_batch]
    /\ UNCHANGED <<pc, args, scheduled, ret>>
    /\ UNCHANGED db

\* lines 472-483: the summary of a non-empty list
SummaryReturn ==
    /\ pc = "summary_loop"
    /\ locals.i >= Len(args.scheduled_actions)
    /\ pc' = "returned"
    /\ ret' = [total |-> Len(args.scheduled_actions),
               start |-> MinStart(args.scheduled_actions),
               end |-> MaxStart(args.scheduled_actions),
               duration_days |-> (MaxStart(args.scheduled_actions)
                                  - MinStart(args.scheduled_actions))
                                 \div timedelta(1, 0, 0),
               by_date |-> locals.by_date,
               by_type |-> locals.by_type,
               by_batch |-> locals.by_batch,
               peak_date |-> DictPeakKey(locals.by_date),
               peak_count |-> DictMaxValue(locals.by_date)]
    /\ UNCHANGED <<args, locals, scheduled>>
    /\ UNCHANGED db

---------------------------------------------------------------------------
(* Single-phase query: CampaignBuilder.generate_phase_actions *)

\* longest escalation ladder, most tactics of one phase, most targets
MaxLadder == 2

MaxTactics == 2

MaxTargets == 2

\* the phase numbers carried by ladder entries and asked for by callers
LadderPhaseNumbers == 1..3

\* an entry of campaign.escalation_ladder; its tactics are numbered 1..tactics
LadderEntries == [phase : LadderPhaseNumbers, tactics : 0..MaxTactics]

Ladders == UNION {[1..n -> LadderEntries] : n \in 0..MaxLadder}

\* the test of line 396 answering yes for every entry
LadderEntryMatches_Always(p, phase_number) == TRUE

\* line 396: p["phase"] == phase_number
LadderEntryMatches(p, phase_number) == p.phase = phase_number

\* lines 413-431 and 434-442: the Action built for a tactic, for a target
\* (target 0: no target)
PhaseAction(phase_number, tactic, target) ==
    [title |-> <<"Phase", phase_number, tactic>>, target |-> target,
     priority |-> phase_number]

\* lines 411-443: the actions of one tactic, one per target when targets are
\* given and one otherwise
TacticActions(phase_number, tactic, targets) ==
    IF targets > 0
    THEN [t \in 1..targets |-> PhaseAction(phase_number, tactic, t)]
    ELSE <<PhaseAction(phase_number, tactic, 0)>>

\* lines 391-394: the call; an empty ladder returns [] at once
GenCall ==
    /\ pc = "idle"
    /\ \E ladder \in Ladders, phase_number \in LadderPhaseNumbers,
          targets \in 0..MaxTargets :
         /\ args' = [fn |-> "generate_phase_actions", escalation_ladder |-> ladder,
                     phase_number |-> phase_number, targets |-> targets]
         /\ IF ladder = <<>>
            THEN /\ pc' = "returned"
                 /\ ret' = <<>>
                 /\ UNCHANGED locals
            ELSE /\ pc' = "gen_find"
                 /\ locals' = [p |-> 1]
                 /\ UNCHANGED ret
    /\ scheduled' = <<>>
    /\ UNCHANGED db

\* lines 395-404: one iteration of the search for the phase
GenFind ==
    /\ pc = "gen_find"
    /\ locals.p <= Len(args.escalation_ladder)
    /\ IF LadderEntryMatches(args.escalation_ladder[locals.p], args.phase_number)
       THEN /\ pc' = "gen_tactics"
            /\ locals' = [phase |-> args.escalation_ladder[locals.p], i |-> 0,
                          actions |-> <<>>]
       ELSE /\ locals' = [p |-> locals.p + 1]
            /\ UNCHANGED pc
    /\ UNCHANGED <<args, scheduled, ret>>
    /\ UNCHANGED db

\* lines 400-401: no entry carries the number
GenNotFound ==
    /\ pc = "gen_find"
    /\ locals.p > Len(args.escalation_ladder)
    /\ pc' = "ValueError"
    /\ UNCHANGED <<args, locals, scheduled, ret>>
    /\ UNCHANGED db

\* lines 406-443: one iteration of the loop over the phase's tactics
GenTactic ==
    /\ pc = "gen_tactics"
    /\ locals.i < locals.phase.tactics
    /\ locals' = [locals EXCEPT
                     !.i = locals.i + 1,
                     !.actions = locals.actions \o
                         TacticActions(args.phase_number, locals.i + 1, args.targets)]
    /\ UNCHANGED <<pc, args, scheduled, ret>>
    /\ UNCHANGED db

\* line 445
GenReturn ==
    /\ pc = "gen_tactics"
    /\ locals.i >= locals.phase.tactics
    /\ pc' = "returned"
    /\ ret' = locals.actions
    /\ UNCHANGED <<args, locals, scheduled>>
    /\ UNCHANGED db

---------------------------------------------------------------------------
(* Dashboard API: claim_action, complete_action, verify_action *)

\* the rows of the actions and participants tables have ids 1..MaxApiActions
\* and 1..MaxParticipants; a request may also name the next, missing id
MaxApiActions == 2

MaxParticipants == 2

\* a participant's actions_completed is counted up to MaxCompleted
MaxCompleted == 2

\* Action.assigned_to of an unassigned action (None)
Unassigned == 0

\* the tables before the first request: every action AVAILABLE and
\* unassigned, every participant's counters 0
InitialDb ==
    [action |-> [a \in 1..MaxApiActions |->
                    [status |-> "available", assigned_to |-> Unassigned]],
     participant |-> [p \in 1..MaxParticipants |->
                         [actions_completed |-> 0, actions_verified |-> 0]]]

\* db.query(Action).filter(Action.id == action_id).first() finds a row
ActionExists(action_id) == action_id \in DOMAIN db.action

ParticipantExists(participant_id) == participant_id \in DOMAIN db.participant

\* an HTTPException raised by a handler
HTTPException(status_code, detail) == [status_code |-> status_code, detail |-> detail]

\* the test of line 388 letting every status through
VerifyRefused_Never(status) == FALSE

\* line 388: action.status != ActionStatus.COMPLETED
VerifyRefused(status) == status # "completed"

\* lines 371-377 and 391-396: the participant row the handler updates, if any
\* (`if action.assigned_to:` and `if participant:`)
AssignedParticipant(action_id) ==
    IF /\ db.action[action_id].assigned_to # Unassigned
       /\ ParticipantExists(db.action[action_id].assigned_to)
    THEN {db.action[action_id].assigned_to}
    ELSE {}

\* the dashboard process serves requests one at a time
Serving == pc \in {"idle", "serving"}

\* lines 338-354: POST /api/actions/{action_id}/claim
ClaimAction ==
    /\ Serving
    /\ pc' = "serving"
    /\ \E action_id \in 1..(MaxApiActions + 1),
          participant_id \in 1..(MaxParticipants + 1) :
         /\ args' = [fn |-> "claim_action", action_id |-> action_id,
                     participant_id |-> participant_id]
         /\ IF ~ActionExists(action_id)
            THEN /\ ret' = HTTPException(404, "Action not found")
                 /\ UNCHANGED db
            ELSE IF db.action[action_id].status # "available"
            THEN /\ ret' = HTTPException(400, "Action not available")
                 /\ UNCHANGED db
            ELSE IF ~ParticipantExists(participant_id)
            THEN /\ ret' = HTTPException(404, "Participant not found")
                 /\ UNCHANGED db
            ELSE /\ db' = [db EXCEPT !.action[action_id] =
                              [status |-> "claimed", assigned_to |-> participant_id]]
                 /\ ret' = [status |-> "claimed", action_id |-> action_id,
                            participant_id |-> participant_id]
    /\ UNCHANGED <<locals, scheduled>>

\* lines 357-379: POST /api/actions/{action_id}/complete
CompleteAction ==
    /\ Serving
    /\ pc' = "serving"
    /\ \E action_id \in 1..(MaxApiActions + 1) :
         /\ args' = [fn |-> "complete_action", action_id |-> action_id]
         /\ IF ~ActionExists(action_id)
            THEN /\ ret' = HTTPException(404, "Action not found")
                 /\ UNCHANGED db
            ELSE /\ \A p \in AssignedParticipant(action_id) :
                      db.participant[p].actions_completed < MaxCompleted
                 /\ db' = [action |-> [db.action EXCEPT ![action_id].status = "completed"],
                           participant |->
                               [p \in DOMAIN db.participant |->
                                   IF p \in AssignedParticipant(action_id)
                                   THEN [db.participant[p] EXCEPT
                                            !.actions_completed = @ + 1]
                                   ELSE db.participant[p]]]
                 /\ ret' = [status |-> "completed", action_id |-> action_id]
    /\ UNCHANGED <<locals, scheduled>>

\* lines 382-398: POST /api/actions/{action_id}/verify
VerifyAction ==
    /\ Serving
    /\ pc' = "serving"
    /\ \E action_id \in 1..(MaxApiActions + 1) :
         /\ args' = [fn |-> "verify_action", action_id |-> action_id]
         /\ IF ~ActionExists(action_id)
            THEN /\ ret' = HTTPException(404, "Action not found")
                 /\ UNCHANGED db
            ELSE IF VerifyRefused(db.action[action_id].status)
            THEN /\ ret' = HTTPException(400, "Action must be completed first")
                 /\ UNCHANGED db
            ELSE /\ db' = [action |-> [db.action EXCEPT ![action_id].status = "verified"],
                           participant |->
                               [p \in DOMAIN db.participant |->
                                   IF p \in AssignedParticipant(action_id)
                                   THEN [db.participant[p] EXCEPT
                                            !.actions_verified = @ + 1]
                                   ELSE db.participant[p]]]
                 /\ ret' = [status |-> "verified", action_id |-> action_id]
    /\ UNCHANGED <<locals, scheduled>>

\* lines 280-283: Participant.reliability_score, as the fraction
\* <<numerator, denominator>> before and after the clamp min(1.0, .)
ReliabilityUnclamped(participant) ==
    IF participant.actions_completed = 0
    THEN <<1, 2>>
    ELSE <<participant.actions_verified, Max(1, participant.actions_completed)>>

reliability_score(participant) ==
    LET r == ReliabilityUnclamped(participant)
    IN IF r[1] > r[2] THEN <<1, 1>> ELSE r

---------------------------------------------------------------------------
Init ==
    /\ pc = "idle"
    /\ args = [fn |-> "none"]
    /\ locals = [i |-> 0]
    /\ scheduled = <<>>
    /\ ret = <<>>
    /\ db = InitialDb

NextClock == ClockCall

NextStagger == EmailCall \/ EmailIter \/ EmailReturn

NextBurst == BurstCall

NextRamp == RampCall \/ RampEarlyIter \/ RampMiddleIter \/ RampFinalIter

NextPhase == PhaseCall \/ PhaseBegin \/ PhaseDayIter \/ PhaseEnd \/ PhaseReturn

NextPhone == PhoneCall \/ PhoneIter \/ PhoneReturn

NextSummary == SummaryCall \/ SummaryIter \/ SummaryReturn

NextBuilder == GenCall \/ GenFind \/ GenNotFound \/ GenTactic \/ GenReturn

NextApi == ClaimAction \/ CompleteAction \/ VerifyAction

Next ==
    \/ NextClock \/ NextStagger \/ NextBurst \/ NextRamp \/ NextPhase
    \/ NextPhone \/ NextSummary \/ NextBuilder \/ NextApi

SpecClock == Init /\ [][NextClock]_vars

SpecStagger == Init /\ [][NextStagger]_vars

SpecBurst == Init /\ [][NextBurst]_vars

SpecRamp == Init /\ [][NextRamp]_vars

SpecPhase == Init /\ [][NextPhase]_vars

SpecPhone == Init /\ [][NextPhone]_vars

SpecSummary == Init /\ [][NextSummary]_vars

SpecBuilder == Init /\ [][NextBuilder]_vars

SpecApi == Init /\ [][NextApi]_vars

Spec == Init /\ [][Next]_vars

---------------------------------------------------------------------------
(* Properties of the schedules *)

\* the placements built so far by a call of fn
Placed(fn) == IF args.fn = fn THEN scheduled ELSE <<>>

\* the call of fn has returned
Returned(fn) == args.fn = fn /\ pc = "returned"

\* the placements built so far by a stagger call with valid parameters
\* (emails_per_day >= 1, stagger_minutes >= 0)
PlacedByValidStagger ==
    IF /\ args.fn = "schedule_email_campaign"
       /\ args.emails_per_day >= 1
       /\ args.stagger_minutes >= 0
    THEN scheduled
    ELSE <<>>

Abs(x) == IF x >= 0 THEN x ELSE -x

\* C1: every placement of the stagger strategy starts within
\* [window.start, window.end]; a window too short yields fewer placements
\* rather than a placement outside it.  (Stated for the calls with valid
\* parameters, as are C3 and C7.)
C1_StaggerWithinWindow ==
    \A k \in DOMAIN PlacedByValidStagger :
        /\ args.window.start <= scheduled[k].scheduled_start
        /\ scheduled[k].scheduled_start <= args.window.end

\* C2: no placement of the stagger strategy or of the phase sequencer starts
\* on a Saturday or a Sunday.
C2_NoWeekendPlacement ==
    /\ \A k \in DOMAIN Placed("schedule_email_campaign") :
           weekday(Date(scheduled[k].scheduled_start)) < 5
    /\ \A k \in DOMAIN Placed("schedule_escalation_sequence") :
           weekday(Date(scheduled[k].scheduled_start)) < 5

\* C2, its case: a stagger call has returned placements made while the cursor
\* date was a Saturday or a Sunday, each moved to the Monday after.
C2_WeekendRolledToMonday ==
    /\ Returned("schedule_email_campaign")
    /\ \E k \in DOMAIN ret :
         /\ weekday(ret[k].batch_id[2]) >= 5
         /\ weekday(Date(ret[k].scheduled_start)) = 0
         /\ Date(ret[k].scheduled_start) > ret[k].batch_id[2]

\* C3: in a stagger output no calendar date holds more than emails_per_day
\* placements.
C3_DailyCap ==
    \A k \in DOMAIN PlacedByValidStagger :
        Cardinality({j \in DOMAIN scheduled :
                        Date(scheduled[j].scheduled_start)
                            = Date(scheduled[k].scheduled_start)})
            <= args.emails_per_day

\* C4: in a phase sequencer output, every placement of a phase with a lower
\* phase number starts no later than every placement of a phase with a higher
\* one, for every phase list, duration and listing order.
C4_PhaseOrdering ==
    \A a, b \in DOMAIN Placed("schedule_escalation_sequence") :
        scheduled[a].priority < scheduled[b].priority
            => scheduled[a].scheduled_start <= scheduled[b].scheduled_start

\* C5: every placement of the ramp strategy, in the early, the middle and the
\* final tier, starts strictly before the deadline, whatever hour is drawn.
C5_RampBeforeDeadline ==
    \A k \in DOMAIN Placed("schedule_comment_period") :
        args.ramp_up_days >= 1
            => scheduled[k].scheduled_start < args.comment_deadline

\* C5, its case: a ramp call over several ramp days has returned placements
\* of all three tiers, and a final-tier placement drawn at 16:00 of the last
\* day of the ramp window, eight hours before the deadline.
C5_LastRampDayLatestHour ==
    /\ Returned("schedule_comment_period")
    /\ \E k \in DOMAIN ret : ret[k].batch_id = "comment-early"
    /\ \E k \in DOMAIN ret : ret[k].batch_id = "comment-middle"
    /\ args.ramp_up_days > 1
    /\ \E k \in DOMAIN ret :
         /\ ret[k].batch_id = "comment-rampup"
         /\ ret[k].scheduled_start = args.comment_deadline - timedelta(0, 8, 0)

\* C6: every placement of the burst strategy starts within W minutes of the
\* anchor, W the platform's window, for any pre_burst_minutes.
C6_BurstTightness ==
    \A k \in DOMAIN Placed("schedule_social_burst") :
        Abs(scheduled[k].scheduled_start - args.burst_time)
            <= timedelta(0, 0, platform_windows(args.platform))

\* C7: no placement of the stagger strategy starts at an hour of
\* window.blocked_hours, and no placement of the phase sequencer starts at a
\* blocked hour of the window built for its phase.
C7_NoBlockedHour ==
    /\ \A k \in DOMAIN PlacedByValidStagger :
           Hour(scheduled[k].scheduled_start) \notin args.window.blocked_hours
    /\ \A k \in DOMAIN Placed("schedule_escalation_sequence") :
           Hour(scheduled[k].scheduled_start) \notin DefaultBlockedHours

\* C8: for every non-empty action list the ramp strategy does not fail and
\* returns exactly one placement per action id, in input order.
C8_RampOnePlacementPerAction ==
    (args.fn = "schedule_comment_period" /\ Len(args.action_ids) >= 1)
        => /\ pc # "IndexError"
           /\ pc = "returned"
                => /\ Len(ret) = Len(args.action_ids)
                   /\ \A k \in DOMAIN ret : ret[k].action_id = args.action_ids[k]

\* the number of placements of a returned list that carry batch_id
BatchCount(batch_id) ==
    Cardinality({k \in DOMAIN ret : ret[k].batch_id = batch_id})

\* C9: for N >= 1 action ids the ramp strategy returns floor(0.2 N) early
\* placements, floor(0.2 N) middle placements and the rest as final-ramp
\* placements, and every one of the three tiers holds at least one.
C9_RampTiers ==
    (Returned("schedule_comment_period") /\ Len(args.action_ids) >= 1)
        => LET n == Len(args.action_ids)
           IN /\ BatchCount("comment-early") = n \div 5
              /\ BatchCount("comment-middle") = n \div 5
              /\ BatchCount("comment-rampup") = n - 2 * (n \div 5)
              /\ BatchCount("comment-early") >= 1
              /\ BatchCount("comment-middle") >= 1
              /\ BatchCount("comment-rampup") >= 1

\* C10: _next_business_hour terminates and returns an instant for every
\* candidate and every set of blocked hours.
C10_ClockReturns ==
    (args.fn = "next_business_hour" /\ pc # "idle") => pc = "returned"

\* the error positions a call can end in
Raised == pc \in {"OverflowError", "IndexError", "ZeroDivisionError", "ValueError"}

\* the call has an empty action-id list (for the phase sequencer: no actions
\* assigned to any phase)
EmptyActionList ==
    \/ /\ args.fn \in {"schedule_email_campaign", "schedule_social_burst",
                       "schedule_comment_period", "schedule_phone_bank"}
       /\ args.action_ids = <<>>
    \/ /\ args.fn = "schedule_escalation_sequence"
       /\ \A n \in DOMAIN args.actions_per_phase : args.actions_per_phase[n] = <<>>

\* C11: given an empty action-id list, every strategy returns an empty
\* placement list without raising, whatever its other parameters.
C11_EmptyListReturnsEmpty ==
    EmptyActionList => /\ ~Raised
                       /\ scheduled = <<>>
                       /\ pc = "returned" => ret = <<>>

\* a phone-bank placement starts on a weekday at an hour in 9..16
PhonePlacementInHours(sa) ==
    /\ weekday(Date(sa.scheduled_start)) < 5
    /\ Hour(sa.scheduled_start) >= 9
    /\ Hour(sa.scheduled_start) < 17

\* C16: every placement of the phone bank starts on a weekday at an hour h
\* with 9 <= h < 17 and within [window.start, window.end].
C16_PhoneBankInBusinessHours ==
    \A k \in DOMAIN Placed("schedule_phone_bank") :
        /\ PhonePlacementInHours(scheduled[k])
        /\ args.window.start <= scheduled[k].scheduled_start
        /\ scheduled[k].scheduled_start <= args.window.end

\* C16, its case: a phone bank whose window starts on a Saturday has
\* returned placements, the first at 09:00 of the Monday after.
C16_WeekendStartRolledToMonday ==
    /\ Returned("schedule_phone_bank")
    /\ weekday(Date(args.window.start)) = 5
    /\ Len(ret) >= 2
    /\ ret[1].scheduled_start = combine(Date(args.window.start) + 2, 9, 0)

\* the call has a degenerate parameter: a stagger call with emails_per_day <= 0
\* or stagger_minutes < 0, a ramp call with ramp_up_days <= 0
DegenerateCall ==
    \/ /\ args.fn = "schedule_email_campaign"
       /\ args.emails_per_day <= 0 \/ args.stagger_minutes < 0
    \/ /\ args.fn = "schedule_comment_period"
       /\ args.ramp_up_days <= 0

\* C12: a stagger call with emails_per_day <= 0 or stagger_minutes < 0, and a
\* ramp call with ramp_up_days <= 0, fails at once with an InvalidParameter
\* error and returns no placements, for every action list.
C12_DegenerateParamsRejected ==
    DegenerateCall => /\ pc = "InvalidParameter"
                      /\ scheduled = <<>>

\* C15: every placement of the stagger strategy starts at an hour h with
\* 6 <= h <= 18, for every window and every action list.
C15_StaggerBusinessHours ==
    \A k \in DOMAIN PlacedByValidStagger :
        /\ Hour(scheduled[k].scheduled_start) >= 6
        /\ Hour(scheduled[k].scheduled_start) <= 18

\* C19: every placement of the stagger strategy carries the batch id
\* "email-batch-" followed by the calendar date of its own scheduled_start.
C19_BatchIdIsPlacementDate ==
    \A k \in DOMAIN PlacedByValidStagger :
        scheduled[k].batch_id
            = <<"email-batch", Date(scheduled[k].scheduled_start)>>

\* C20: in every stagger output two consecutive placements are at least
\* stagger_minutes apart, so starts never go backwards.
C20_ConsecutiveAtLeastInterval ==
    \A k \in DOMAIN PlacedByValidStagger :
        k + 1 \in DOMAIN scheduled =>
            scheduled[k + 1].scheduled_start - scheduled[k].scheduled_start
                >= timedelta(0, 0, args.stagger_minutes)

\* the sum of the counts of a dict of counts
RECURSIVE SumCounts(_, _)
SumCounts(d, n) ==
    IF n = 0 THEN 0 ELSE d.val[d.keys[n]] + SumCounts(d, n - 1)

DictSum(d) == SumCounts(d, Len(d.keys))

\* C13: for every placement list the summary's by_type counts and its by_date
\* counts each sum to total, and total is the number of placements; for the
\* empty list the summary is total = 0 with no peak date, and it does not fail.
C13_SummarySums ==
    /\ args.fn = "get_schedule_summary" => ~Raised
    /\ Returned("get_schedule_summary") =>
         /\ ret.total = Len(args.scheduled_actions)
         /\ IF args.scheduled_actions = <<>>
            THEN /\ ret.total = 0
                 /\ "peak_date" \notin DOMAIN ret
            ELSE /\ DictSum(ret.by_type) = ret.total
                 /\ DictSum(ret.by_date) = ret.total

\* C13, its case: a summary was returned for three placements of two types,
\* two of them on one date.
C13_SummaryOfSharedDate ==
    /\ Returned("get_schedule_summary")
    /\ ret.total = 3
    /\ ret.peak_count = 2
    /\ Len(ret.by_type.keys) = 2
    /\ Len(ret.by_date.keys) = 2

\* the weeks taken by the first n phases of a phase list
RECURSIVE WeeksBefore(_, _)
WeeksBefore(phases, n) ==
    IF n = 0 THEN 0 ELSE phases[n].duration_weeks + WeeksBefore(phases, n - 1)

\* the start date the claim gives the q-th listed phase: campaign_start plus
\* the durations of all phases listed before it
ExpectedPhaseStart(q) == args.campaign_start + 7 * WeeksBefore(args.phases, q - 1)

\* C14: every placement the phase sequencer returns for a phase starts within
\* that phase's window [phaseStart 09:00, phaseEnd 17:00], where phaseEnd is
\* phaseStart + duration_weeks weeks and phaseStart is campaign_start plus the
\* durations of all phases listed before it, phases without actions included.
C14_PhaseWindowContainment ==
    \A k \in DOMAIN Placed("schedule_escalation_sequence") :
        \E q \in DOMAIN args.phases :
            /\ args.phases[q].phase = scheduled[k].priority
            /\ combine(ExpectedPhaseStart(q), 9, 0) <= scheduled[k].scheduled_start
            /\ scheduled[k].scheduled_start
                 <= combine(ExpectedPhaseStart(q) + 7 * args.phases[q].duration_weeks,
                            17, 0)

\* C14, its case: the sequencer returned placements for a second phase that
\* follows a phase of at least one week without actions.
C14_PlacedAfterEmptyPhase ==
    /\ Returned("schedule_escalation_sequence")
    /\ Len(args.phases) = 2
    /\ args.phases[1].phase # args.phases[2].phase
    /\ args.phases[1].duration_weeks >= 1
    /\ args.actions_per_phase[args.phases[1].phase] = <<>>
    /\ Len(ret) >= 2
    /\ \A k \in DOMAIN ret :
         Date(ret[k].scheduled_start)
             >= args.campaign_start + 7 * args.phases[1].duration_weeks

\* The run of schedule_email_campaign on the present arguments in which every
\* random draw returns its lowest value: the ids placed and their dates.
RECURSIVE EmailRefRun(_, _)
EmailRefRun(loc, placed) ==
    IF \/ loc.i >= Len(args.action_ids)
       \/ EmailWindowExhausted(loc.current_date, args.window)
    THEN placed
    ELSE LET at == SkipWeekend(loc.current_time)
         IN EmailRefRun(EmailAdvance(loc, at, args.emails_per_day,
                                     args.stagger_minutes, 0, 0),
                        Append(placed, [action_id |-> args.action_ids[loc.i + 1],
                                        date |-> Date(at)]))

EmailRef ==
    EmailRefRun(EmailInitLocals(args.window,
                    next_business_hour(args.window.start, args.window.blocked_hours)),
                <<>>)

\* The same for schedule_comment_period: the k-th placement when every final
\* comment draws hour 9.
RampRef ==
    LET total == Len(args.action_ids)
        early_count == TierCount(total)
        middle_count == TierCount(total)
        at(k) == IF k <= early_count
                 THEN EarlyCommentTime(args.comment_deadline, early_count, k - 1)
                 ELSE IF k <= early_count + middle_count
                 THEN MiddleCommentTime(args.comment_deadline, middle_count,
                                        k - early_count - 1)
                 ELSE RampCommentTime(args.comment_deadline, args.ramp_up_days,
                                      RampCount(total),
                                      k - early_count - middle_count - 1, 9)
    IN [k \in 1..total |-> [action_id |-> args.action_ids[k], date |-> Date(at(k))]]

\* The same for schedule_escalation_sequence: every minute drawn is 0.
RECURSIVE PhaseRefDays(_, _, _, _, _, _)
PhaseRefDays(phase_start, days_in_phase, phase_actions, day_offset, action_idx, placed) ==
    IF day_offset >= days_in_phase \/ action_idx >= Len(phase_actions)
    THEN placed
    ELSE LET current_date == phase_start + day_offset
             actions_per_day == ActionsPerDay(Len(phase_actions), days_in_phase)
             rest == Len(phase_actions) - action_idx
             k == IF rest < actions_per_day THEN rest ELSE actions_per_day
         IN IF PhaseSkipsDay(current_date)
            THEN PhaseRefDays(phase_start, days_in_phase, phase_actions,
                              day_offset + 1, action_idx, placed)
            ELSE PhaseRefDays(phase_start, days_in_phase, phase_actions,
                              day_offset + 1, action_idx + k,
                              placed \o [j \in 1..k |->
                                  [action_id |-> phase_actions[action_idx + j],
                                   date |-> Date(PhaseActionTime(current_date,
                                                                 j - 1, 0))]])

RECURSIVE PhaseRefRun(_, _, _)
PhaseRefRun(p, phase_start, placed) ==
    IF p > Len(args.phases)
    THEN placed
    ELSE LET phase == args.phases[p]
             phase_actions == PhaseActions(args.actions_per_phase, phase.phase)
             phase_end == PhaseEndDate(phase_start, phase.duration_weeks)
         IN IF phase_actions = <<>>
            THEN PhaseRefRun(p + 1, phase_end, placed)
            ELSE PhaseRefRun(p + 1, phase_end,
                     PhaseRefDays(phase_start, DaysInPhase(phase_start, phase_end),
                                  phase_actions, 0, 0, placed))

PhaseRef == PhaseRefRun(1, args.campaign_start, <<>>)

\* the returned placements are those of ref: as many, for the same ids, on the
\* same dates
SameIdsAndDates(ref) ==
    /\ Len(ret) = Len(ref)
    /\ \A k \in DOMAIN ret :
         /\ ret[k].action_id = ref[k].action_id
         /\ Date(ret[k].scheduled_start) = ref[k].date

StaggerDrawsKeepDates ==
    (/\ Returned("schedule_email_campaign")
     /\ args.emails_per_day >= 1
     /\ args.stagger_minutes >= 0) => SameIdsAndDates(EmailRef)

RampDrawsKeepDates ==
    (/\ Returned("schedule_comment_period")
     /\ args.ramp_up_days >= 1) => SameIdsAndDates(RampRef)

PhaseDrawsKeepDates ==
    Returned("schedule_escalation_sequence") => SameIdsAndDates(PhaseRef)

\* C17: two stagger, ramp or phase-sequencer calls with the same inputs and
\* different random draws return as many placements, for the same ids, on the
\* same dates. Every run is compared with the run of the same inputs whose
\* draws are all lowest; any two runs agree exactly when each agrees with it.
C17_DrawsNeverChangeDates ==
    /\ StaggerDrawsKeepDates
    /\ RampDrawsKeepDates
    /\ PhaseDrawsKeepDates

\* a single-phase query for a number that no entry of the ladder carries
QueryOfAbsentPhase ==
    /\ args.fn = "generate_phase_actions"
    /\ \A x \in DOMAIN args.escalation_ladder :
         args.escalation_ladder[x].phase # args.phase_number

\* C18 as stated: a query for a phase number that no entry of the ladder
\* carries fails with a phase-not-found error and returns no actions, for
\* every ladder, the empty one included: the call is searching or has raised.
C18_AbsentPhaseRaises ==
    QueryOfAbsentPhase => pc \in {"gen_find", "ValueError"}

\* C18: a query for a phase number that no entry of a non-empty ladder carries
\* fails with ValueError and returns no actions; a query on an empty ladder
\* returns an empty list.
C18_AbsentPhaseRaisesUnlessLadderEmpty ==
    QueryOfAbsentPhase =>
        IF args.escalation_ladder = <<>>
        THEN pc = "returned" /\ ret = <<>>
        ELSE pc \in {"gen_find", "ValueError"}

\* C18, its case: the query went through a ladder of two entries, found the
\* number in neither and raised.
C18_RaisedAfterFullSearch ==
    /\ QueryOfAbsentPhase
    /\ Len(args.escalation_ladder) = 2
    /\ pc = "ValueError"

\* the daily batch of the placement at input index i (from 0)
DailyBatch(i) == FloorDiv(i, args.emails_per_day)

\* C21: in a stagger output the placement at input index i has priority
\* max(1, 5 - floor(i / emails_per_day)), and a placement of an earlier daily
\* batch has strictly higher priority than a placement of a later daily batch,
\* priority 1 being the highest (the smaller number is the higher priority).
C21_EarlierBatchHigherPriority ==
    \A k \in DOMAIN PlacedByValidStagger :
        /\ scheduled[k].priority = Max(1, 5 - DailyBatch(k - 1))
        /\ \A j \in DOMAIN scheduled :
             DailyBatch(j - 1) < DailyBatch(k - 1) =>
                 scheduled[j].priority < scheduled[k].priority

\* C29: the placements of the stagger strategy are, in order, those of a
\* prefix of the input list: the k-th carries the k-th input id, there are at
\* most as many as ids, the loop stops early exactly when the cursor's date is
\* later than window.end's date, and no placement starts on a date after
\* window.end's date.
C29_StaggerPrefixWithinEndDate ==
    /\ \A k \in DOMAIN PlacedByValidStagger :
         /\ k <= Len(args.action_ids)
         /\ scheduled[k].action_id = args.action_ids[k]
         /\ Date(scheduled[k].scheduled_start) <= Date(args.window.end)
    /\ (/\ Returned("schedule_email_campaign")
        /\ args.emails_per_day >= 1
        /\ args.stagger_minutes >= 0
        /\ Len(ret) < Len(args.action_ids)) =>
           locals.current_date > Date(args.window.end)

\* the Monday-Friday dates from phase_start up to, not including, phase_end
BusinessDays(phase_start, phase_end) ==
    {d \in phase_start..(phase_end - 1) : weekday(d) < 5}

\* the returned placements of phase number n that start on date d
PhasePlacementsOn(n, d) ==
    {k \in DOMAIN ret : ret[k].priority = n /\ Date(ret[k].scheduled_start) = d}

\* the share of business day d of the q-th listed phase under the rule
\* max(1, floor(count / businessDaysInPhase)) a day until the actions run out
ExpectedOnDay(q, d) ==
    LET phase_start == ExpectedPhaseStart(q)
        phase_end == phase_start + 7 * args.phases[q].duration_weeks
        count == Len(PhaseActions(args.actions_per_phase, args.phases[q].phase))
        per_day == Max(1, count \div Cardinality(BusinessDays(phase_start, phase_end)))
        left == count - per_day * Cardinality(BusinessDays(phase_start, d))
    IN IF left <= 0 THEN 0 ELSE IF left < per_day THEN left ELSE per_day

\* the phase numbers of the list are pairwise different
PhaseNumbersDistinct ==
    \A p, q \in DOMAIN args.phases :
        args.phases[p].phase = args.phases[q].phase => p = q

\* C22: for a phase with count actions the phase sequencer gives each business
\* day of the phase max(1, floor(count / businessDaysInPhase)) actions, where
\* businessDaysInPhase counts the Monday-Friday days from phaseStart to
\* phaseEnd, until the phase's actions run out.
C22_PerBusinessDayShare ==
    (Returned("schedule_escalation_sequence") /\ PhaseNumbersDistinct) =>
        \A q \in DOMAIN args.phases :
            \A d \in BusinessDays(ExpectedPhaseStart(q),
                                  ExpectedPhaseStart(q)
                                      + 7 * args.phases[q].duration_weeks) :
                Cardinality(PhasePlacementsOn(args.phases[q].phase, d))
                    = ExpectedOnDay(q, d)

\* C23: every action id assigned to a phase of the phase list with
\* duration_weeks >= 1 receives exactly one placement from the phase
\* sequencer: none is dropped and none is placed twice.
C23_PhaseActionsPlacedOnce ==
    (Returned("schedule_escalation_sequence") /\ PhaseNumbersDistinct) =>
        \A q \in DOMAIN args.phases :
            args.phases[q].duration_weeks >= 1 =>
                LET ids == PhaseActions(args.actions_per_phase, args.phases[q].phase)
                IN \A x \in DOMAIN ids :
                       Cardinality({k \in DOMAIN ret : ret[k].action_id = ids[x]}) = 1

\* the indices in ret of the final tier of a returned ramp call, in order:
\* the placements after the early and the middle tier
FinalTierIndex(i) == TierCount(Len(args.action_ids)) + TierCount(Len(args.action_ids)) + i + 1

\* the whole days between the ramp start and the placement of final-tier
\* action i (from 0)
PlacedDayOffset(i) ==
    (ret[FinalTierIndex(i)].scheduled_start
        - (args.comment_deadline - timedelta(args.ramp_up_days, 0, 0)))
    \div timedelta(1, 0, 0)

\* C24: in the ramp's final tier of count >= 2 actions with ramp_up_days
\* R >= 1, action i is placed floor((i / (count - 1))^2 * (R - 1)) days after
\* the ramp start, and the gap between the day offsets of consecutive actions
\* never increases with i (placements cluster more tightly toward the
\* deadline).
C24_RampGapsNeverIncrease ==
    (/\ Returned("schedule_comment_period")
     /\ args.ramp_up_days >= 1
     /\ RampCount(Len(args.action_ids)) >= 2) =>
        LET count == RampCount(Len(args.action_ids))
        IN /\ \A i \in 0..(count - 1) :
                PlacedDayOffset(i)
                    = (i * i * (args.ramp_up_days - 1)) \div ((count - 1) * (count - 1))
           /\ \A i \in 0..(count - 3) :
                PlacedDayOffset(i + 2) - PlacedDayOffset(i + 1)
                    <= PlacedDayOffset(i + 1) - PlacedDayOffset(i)

\* the first Monday-Friday date strictly after date d
FirstBusinessDateAfter(d) ==
    CHOOSE x \in (d + 1)..(d + 3) :
        /\ weekday(x) < 5
        /\ \A y \in (d + 1)..(x - 1) : weekday(y) >= 5

\* C25: with 9 not blocked, the business clock returns the candidate unchanged
\* when its hour is not blocked and its day is Monday-Friday, and 09:00 on the
\* first Monday-Friday date strictly after the candidate's date otherwise; the
\* result is never earlier than the candidate, never on a weekend and never
\* in a blocked hour.
C25_ClockResult ==
    (/\ args.fn = "next_business_hour"
     /\ pc # "idle"
     /\ 9 \notin args.window.blocked_hours) =>
        /\ pc = "returned"
        /\ IF /\ Hour(args.dt) \notin args.window.blocked_hours
              /\ weekday(Date(args.dt)) < 5
           THEN ret = args.dt
           ELSE ret = combine(FirstBusinessDateAfter(Date(args.dt)), 9, 0)
        /\ ret >= args.dt
        /\ weekday(Date(ret)) < 5
        /\ Hour(ret) \notin args.window.blocked_hours

\* C25, its case: Friday 23:00 with the hours 22-06 blocked was rolled to
\* Monday 09:00.
C25_FridayNightToMonday ==
    /\ Returned("next_business_hour")
    /\ args.dt = combine(4, 23, 0)
    /\ args.window.blocked_hours = DefaultBlockedHours
    /\ ret = combine(7, 9, 0)

\* the window length W of a platform, in minutes
BurstWindowLength(platform) ==
    IF platform = "twitter" THEN 10
    ELSE IF platform = "tiktok" THEN 20
    ELSE IF platform = "linkedin" THEN 30
    ELSE 15

\* C26: for N >= 1 ids the burst strategy returns N placements, the i-th (from
\* 0) at anchor - pre_burst_minutes + i * (W / N) minutes, W the platform's
\* window length; every start lies in [anchor - pre, anchor - pre + W), starts
\* strictly increase, and all placements have priority 1 and one batch id
\* derived from the anchor.
C26_BurstEvenSpacing ==
    (Returned("schedule_social_burst") /\ Len(args.action_ids) >= 1) =>
        LET N == Len(args.action_ids)
            W == timedelta(0, 0, BurstWindowLength(args.platform))
            windowStart == args.burst_time - timedelta(0, 0, args.pre_burst_minutes)
        IN /\ Len(ret) = N
           /\ \A k \in 1..N :
                /\ ret[k].action_id = args.action_ids[k]
                /\ (ret[k].scheduled_start - windowStart) * N = (k - 1) * W
                /\ ret[k].scheduled_start >= windowStart
                /\ ret[k].scheduled_start < windowStart + W
                /\ k < N => ret[k].scheduled_start < ret[k + 1].scheduled_start
                /\ ret[k].priority = 1
                /\ ret[k].batch_id = <<"social-burst", args.burst_time>>

\* C26, its case: three posts on twitter with a five-minute pre-burst were
\* returned, the last 400 seconds after the window start.
C26_ThreePostsOnTwitter ==
    /\ Returned("schedule_social_burst")
    /\ args.platform = "twitter"
    /\ args.pre_burst_minutes = 5
    /\ Len(ret) = 3
    /\ ret[3].scheduled_start = args.burst_time - 300 + 400

\* of the placements built so far, the j-th starts no later than the k-th
StartsInOrder(j, k) ==
    scheduled[j].scheduled_start <= scheduled[k].scheduled_start

StaggerKeepsOrder ==
    \A j, k \in DOMAIN PlacedByValidStagger : j < k => StartsInOrder(j, k)

BurstKeepsOrder ==
    \A j, k \in DOMAIN Placed("schedule_social_burst") : j < k => StartsInOrder(j, k)

\* within one tier (one batch id) of a ramp call with ramp_up_days >= 1
RampKeepsOrder ==
    (args.fn = "schedule_comment_period" /\ args.ramp_up_days >= 1) =>
        \A j, k \in DOMAIN scheduled :
            (j < k /\ scheduled[j].batch_id = scheduled[k].batch_id) =>
                StartsInOrder(j, k)

\* within one phase of a list whose phase numbers are distinct
PhaseKeepsOrder ==
    (args.fn = "schedule_escalation_sequence" /\ PhaseNumbersDistinct) =>
        \A j, k \in DOMAIN scheduled :
            (j < k /\ scheduled[j].priority = scheduled[k].priority) =>
                StartsInOrder(j, k)

\* C27: in the output of every strategy input order is preserved in time: if
\* action a precedes action b in the input of one stagger call, one burst
\* call, one ramp tier or one phase, then a starts no later than b, whatever
\* the random draws and however many actions fall on one day.
C27_InputOrderPreserved ==
    /\ StaggerKeepsOrder
    /\ BurstKeepsOrder
    /\ RampKeepsOrder
    /\ PhaseKeepsOrder

\* the placements of the summarised list that start on date d
SummarisedOn(d) ==
    {k \in DOMAIN args.scheduled_actions :
        Date(args.scheduled_actions[k].scheduled_start) = d}

\* the dates of the summarised list
SummarisedDates ==
    {Date(args.scheduled_actions[k].scheduled_start) :
        k \in DOMAIN args.scheduled_actions}

\* the index of the first placement of the summarised list on date d
FirstOn(d) == CHOOSE k \in SummarisedOn(d) : \A j \in SummarisedOn(d) : k <= j

\* C28: for a non-empty list the summary's peak_date is a date with the
\* greatest placement count, peak_count is by_date[peak_date], of several
\* dates with the greatest count the one whose first placement comes first in
\* the list is reported, and the by_batch counts sum to the number of
\* placements that carry a non-empty batch id.
C28_SummaryPeak ==
    (Returned("get_schedule_summary") /\ args.scheduled_actions # <<>>) =>
        /\ ret.peak_date \in SummarisedDates
        /\ ret.peak_count = Cardinality(SummarisedOn(ret.peak_date))
        /\ ret.peak_count = ret.by_date.val[ret.peak_date]
        /\ \A d \in SummarisedDates :
             /\ Cardinality(SummarisedOn(d)) <= ret.peak_count
             /\ Cardinality(SummarisedOn(d)) = ret.peak_count =>
                    FirstOn(ret.peak_date) <= FirstOn(d)
        /\ DictSum(ret.by_batch)
             = Cardinality({k \in DOMAIN args.scheduled_actions :
                               args.scheduled_actions[k].batch_id # NoBatch})

\* C28, its case: two dates tie for the greatest count and the later calendar
\* date, whose placement comes first in the list, is the peak; one of the
\* placements has no batch id.
C28_TieReportsFirstListed ==
    /\ Returned("get_schedule_summary")
    /\ Len(args.scheduled_actions) = 2
    /\ Date(args.scheduled_actions[1].scheduled_start)
         > Date(args.scheduled_actions[2].scheduled_start)
    /\ ret.peak_date = Date(args.scheduled_actions[1].scheduled_start)
    /\ ret.peak_count = 1
    /\ DictSum(ret.by_batch) = 1

\* one request's step: a claim succeeds only on an AVAILABLE action, a
\* verify only on a COMPLETED one, a complete on any action that exists
RequestOutcomes ==
    /\ (args'.fn = "claim_action" /\ "participant_id" \in DOMAIN ret')
          => db.action[args'.action_id].status = "available"
    /\ (args'.fn = "verify_action" /\ "status" \in DOMAIN ret')
          => db.action[args'.action_id].status = "completed"
    /\ (args'.fn = "complete_action" /\ ActionExists(args'.action_id))
          => db'.action[args'.action_id].status = "completed"

\* C30: from actions that are AVAILABLE and unassigned and participants whose
\* counters are 0, after any sequence of claim_action, complete_action and
\* verify_action calls every participant's actions_verified is at most its
\* actions_completed, so reliability_score never needs its clamp, and an
\* action's assigned_to never changes once set; a claim succeeds only on an
\* AVAILABLE action, a verify only on a COMPLETED one, a complete on any.
C30_VerifiedAtMostCompleted ==
    /\ [](\A p \in DOMAIN db.participant :
             /\ db.participant[p].actions_verified
                  <= db.participant[p].actions_completed
             /\ reliability_score(db.participant[p])
                  = ReliabilityUnclamped(db.participant[p]))
    /\ [][\A a \in DOMAIN db.action :
             db.action[a].assigned_to # Unassigned =>
                 db'.action[a].assigned_to = db.action[a].assigned_to]_vars
    /\ [][RequestOutcomes]_vars

\* C30, its case: an action claimed by a participant was completed and
\* verified twice over, and a later claim of it was refused.
C30_ReverifiedAndClaimRefused ==
    /\ args.fn = "claim_action"
    /\ ret = HTTPException(400, "Action not available")
    /\ db.action[args.action_id].status = "verified"
    /\ db.action[args.action_id].assigned_to # Unassigned
    /\ db.action[args.action_id].assigned_to # args.participant_id
    /\ db.participant[db.action[args.action_id].assigned_to].actions_verified = 2

===========================================================================
